---- MODULE Spec2Model ----
(***************************************************************************)
(* A model of the discovery / extraction / normalization pipeline of      *)
(* the_infatuation_map (src/pipeline/*.py).                                *)
(*                                                                         *)
(* Strings are sequences of code points (Python str), so that lower(),    *)
(* strip(), rstrip("/"), substring tests and lexicographic order are      *)
(* computed as the code computes them.  An optional float (lat, lng) is   *)
(* <<>> for None and <<v>> for the number v.                               *)
(***************************************************************************)
EXTENDS Integers, Sequences, FiniteSets, TLC

(***************************************************************************)
(* Bounds of the model.                                                    *)
(***************************************************************************)
\* longest list of raw observations handed to normalize
MaxRaw == 3
\* number of distinct clock readings datetime.now() can return
MaxClock == 2
\* largest --max-guides argument
MaxGuidesArg == 2
\* how many times the program is run on the same site
MaxRuns == 2

(***************************************************************************)
(* Python string primitives.                                               *)
(***************************************************************************)
MinOf(S) == CHOOSE x \in S : \A y \in S : x <= y
MaxOf(S) == CHOOSE x \in S : \A y \in S : y <= x

\* the ASCII characters str.strip() and the regex class \s take for whitespace
\* (tab, LF, VT, FF, CR, space)
WhiteSpace == {9, 10, 11, 12, 13, 32}

\* str.isspace for one character
IsSpace(c) == c \in WhiteSpace

\* str.lower for one ASCII character
LowerChar(c) == IF c \in 65..90 THEN c + 32 ELSE c

\* str.lower()
Lower(s) == [i \in 1..Len(s) |-> LowerChar(s[i])]

\* str.strip()
Strip(s) ==
    LET keep == {i \in 1..Len(s) : ~IsSpace(s[i])}
    IN  IF keep = {} THEN <<>> ELSE SubSeq(s, MinOf(keep), MaxOf(keep))

\* str.rstrip(ch) for a single character ch
RStripChar(s, ch) ==
    LET keep == {i \in 1..Len(s) : s[i] # ch}
    IN  IF keep = {} THEN <<>> ELSE SubSeq(s, 1, MaxOf(keep))

\* str.strip(ch) for a single character ch
StripChar(s, ch) ==
    LET keep == {i \in 1..Len(s) : s[i] # ch}
    IN  IF keep = {} THEN <<>> ELSE SubSeq(s, MinOf(keep), MaxOf(keep))

\* `sub in s`
Contains(s, sub) ==
    \E i \in 1..(Len(s) - Len(sub) + 1) : SubSeq(s, i, i + Len(sub) - 1) = sub

\* Python's < on str: lexicographic by code point
StrLess(a, b) ==
    \E i \in 1..Len(b) :
        /\ \A j \in 1..(i - 1) : j <= Len(a) /\ a[j] = b[j]
        /\ (i > Len(a) \/ (i <= Len(a) /\ a[i] < b[i]))

\* truthiness of a str
NonEmpty(s) == Len(s) > 0

\* truthiness of an optional float: None and 0.0 are falsy
TruthyNum(x) == x # <<>> /\ x[1] # 0

\* re.sub(cls+, rep, s): every maximal run of characters in cls becomes rep
RECURSIVE SubRuns(_, _, _, _)
SubRuns(s, cls, rep, i) ==
    IF i > Len(s) THEN <<>>
    ELSE IF s[i] \in cls
         THEN (IF i > 1 /\ s[i - 1] \in cls THEN <<>> ELSE rep)
              \o SubRuns(s, cls, rep, i + 1)
         ELSE <<s[i]>> \o SubRuns(s, cls, rep, i + 1)

(***************************************************************************)
(* normalizer.py                                                           *)
(***************************************************************************)
\* _normalize_text: lowercase, strip, collapse whitespace runs to one space
NormalizeText(text) == SubRuns(Lower(Strip(text)), WhiteSpace, <<32>>, 1)

\* hashlib.sha256(key).hexdigest()[:16] is a fixed-width digest of the key
\* bytes.  It is modelled by a 16-bit polynomial digest: deterministic, of
\* bounded range, and (like any digest) not injective.
RECURSIVE DigestFrom(_, _, _)
DigestFrom(s, i, h) ==
    IF i > Len(s) THEN h ELSE DigestFrom(s, i + 1, (h * 31 + s[i]) % 65536)

Digest(bytes) == DigestFrom(bytes, 1, 7)

\* f"{_normalize_text(name)}|{_normalize_text(address)}"
IdKey(name, address) == NormalizeText(name) \o <<124>> \o NormalizeText(address)

\* a plausible bug: the identifier is derived from the name alone
MakeIdNameOnly(name, address) == Digest(NormalizeText(name))

\* _make_id
MakeId(name, address) == Digest(IdKey(name, address))

\* _make_slug
SlugKeep == (97..122) \cup (48..57) \cup WhiteSpace \cup {45}
MakeSlug(name) ==
    LET s1 == Strip(Lower(name))
        s2 == SelectSeq(s1, LAMBDA c : c \in SlugKeep)
        s3 == SubRuns(s2, WhiteSpace \cup {45}, <<45>>, 1)
    IN  StripChar(s3, 45)

\* "/reviews/"
ReviewsPart == <<47, 114, 101, 118, 105, 101, 119, 115, 47>>

\* a plausible bug: the review URL is used as the key as it is written
DedupKeyVerbatim(r) ==
    IF NonEmpty(r.restaurant_url) /\ Contains(r.restaurant_url, ReviewsPart)
    THEN r.restaurant_url
    ELSE IdKey(r.name, r.address)

\* _dedup_key
DedupKey(r) ==
    IF NonEmpty(r.restaurant_url) /\ Contains(r.restaurant_url, ReviewsPart)
    THEN Lower(RStripChar(r.restaurant_url, 47))
    ELSE IdKey(r.name, r.address)

\* list(existing["tags"]) extended by the tags of new not yet in it
RECURSIVE UnionTags(_, _, _)
UnionTags(tags, new, i) ==
    IF i > Len(new) THEN tags
    ELSE UnionTags(IF \E j \in 1..Len(tags) : tags[j] = new[i]
                   THEN tags ELSE Append(tags, new[i]),
                   new, i + 1)

\* a plausible bug: a later non-empty value overwrites
FillGapOverwrite(old, new) == IF NonEmpty(new) THEN new ELSE old

\* `if not existing.get(f) and new.f: existing[f] = new.f`
FillGap(old, new) == IF ~NonEmpty(old) /\ NonEmpty(new) THEN new ELSE old

\* a plausible bug: coordinates are filled like the other fields
MergeCoordsKeepFirst(existing, new) ==
    IF TruthyNum(new.lat) /\ TruthyNum(new.lng)
       /\ ~(TruthyNum(existing.lat) /\ TruthyNum(existing.lng))
    THEN [lat |-> new.lat, lng |-> new.lng]
    ELSE [lat |-> existing.lat, lng |-> existing.lng]

\* `if new.lat and new.lng:` both coordinates overwrite, else both are kept
MergeCoords(existing, new) ==
    IF TruthyNum(new.lat) /\ TruthyNum(new.lng)
    THEN [lat |-> new.lat, lng |-> new.lng]
    ELSE [lat |-> existing.lat, lng |-> existing.lng]

\* a plausible bug: the source page of a merged observation is not recorded
MergeSourcesNone(source_urls, new) == source_urls

\* source_urls with new.source_url appended when non-empty and not yet in it
MergeSources(source_urls, new) ==
    IF NonEmpty(new.source_url)
       /\ ~\E j \in 1..Len(source_urls) : source_urls[j] = new.source_url
    THEN Append(source_urls, new.source_url)
    ELSE source_urls

\* _merge_restaurants
MergeRestaurants(existing, new) ==
    [existing EXCEPT
        !.address = FillGap(@, new.address),
        !.neighborhood = FillGap(@, new.neighborhood),
        !.cuisine = FillGap(@, new.cuisine),
        !.restaurant_url = FillGap(@, new.restaurant_url),
        !.image_url = FillGap(@, new.image_url),
        !.tags = UnionTags(@, new.tags, 1),
        !.source_urls = MergeSources(@, new),
        !.lat = MergeCoords(existing, new).lat,
        !.lng = MergeCoords(existing, new).lng]

\* the record built for the first observation of a merge-group
NewRecord(raw, t) ==
    [name |-> Strip(raw.name),
     address |-> Strip(raw.address),
     neighborhood |-> Strip(raw.neighborhood),
     cuisine |-> Strip(raw.cuisine),
     restaurant_url |-> raw.restaurant_url,
     image_url |-> raw.image_url,
     source_url |-> raw.source_url,
     source_urls |-> IF NonEmpty(raw.source_url) THEN <<raw.source_url>> ELSE <<>>,
     lat |-> raw.lat,
     lng |-> raw.lng,
     tags |-> raw.tags,
     last_seen_at |-> t,
     source |-> "theinfatuation"]

\* a plausible bug: only the empty name is tested, not the blank one
DiscardedEmptyOnly(raw) == ~NonEmpty(raw.name)

\* `if not raw.name or not raw.name.strip(): continue`
Discarded(raw) == ~NonEmpty(raw.name) \/ ~NonEmpty(Strip(raw.name))

\* position of key in the insertion-ordered dict deduped, 0 when absent
KeyIndex(d, key) ==
    IF \E i \in 1..Len(d) : d[i].key = key
    THEN CHOOSE i \in 1..Len(d) : d[i].key = key
    ELSE 0

\* one iteration of the loop `for raw in raw_restaurants`
DedupStep(d, raw, t) ==
    IF Discarded(raw) THEN d
    ELSE LET key == DedupKey(raw)
             k == KeyIndex(d, key)
         IN  IF k # 0
             THEN [d EXCEPT ![k].rec = MergeRestaurants(@, raw)]
             ELSE Append(d, [key |-> key, rec |-> NewRecord(raw, t)])

\* a plausible bug: the identifier is derived from the whole record, its
\* timestamp included
WithIdOfRecord(rec) ==
    [name |-> rec.name, address |-> rec.address,
     neighborhood |-> rec.neighborhood, cuisine |-> rec.cuisine,
     restaurant_url |-> rec.restaurant_url, image_url |-> rec.image_url,
     source_url |-> rec.source_url, source_urls |-> rec.source_urls,
     lat |-> rec.lat, lng |-> rec.lng, tags |-> rec.tags,
     last_seen_at |-> rec.last_seen_at, source |-> rec.source,
     id |-> Digest(IdKey(rec.name, rec.address) \o <<rec.last_seen_at>>),
     slug |-> MakeSlug(rec.name)]

\* record with record["id"] and record["slug"] set
WithId(rec) ==
    [name |-> rec.name, address |-> rec.address,
     neighborhood |-> rec.neighborhood, cuisine |-> rec.cuisine,
     restaurant_url |-> rec.restaurant_url, image_url |-> rec.image_url,
     source_url |-> rec.source_url, source_urls |-> rec.source_urls,
     lat |-> rec.lat, lng |-> rec.lng, tags |-> rec.tags,
     last_seen_at |-> rec.last_seen_at, source |-> rec.source,
     id |-> MakeId(rec.name, rec.address), slug |-> MakeSlug(rec.name)]

\* the loop `for record in deduped.values()` with seen_ids
RECURSIVE AssignFrom(_, _, _, _)
AssignFrom(d, i, seen_ids, acc) ==
    IF i > Len(d) THEN acc
    ELSE LET rid == MakeId(d[i].rec.name, d[i].rec.address)
         IN  IF rid \in seen_ids
             THEN AssignFrom(d, i + 1, seen_ids, acc)
             ELSE AssignFrom(d, i + 1, seen_ids \cup {rid},
                             Append(acc, WithId(d[i].rec)))

\* a plausible bug: no seen_ids test, every group is emitted
AssignIdsNoSeen(d) == [i \in 1..Len(d) |-> WithId(d[i].rec)]

AssignIds(d) == AssignFrom(d, 1, {}, <<>>)

\* key=lambda r: str(r.get("name", "")).lower()
SortKey(rec) == Lower(rec.name)

\* list.sort(key=...) is stable: insert each record after the records whose
\* key is not greater
RECURSIVE InsertSorted(_, _)
InsertSorted(sorted, rec) ==
    IF sorted = <<>> THEN <<rec>>
    ELSE IF StrLess(SortKey(rec), SortKey(sorted[Len(sorted)]))
         THEN Append(InsertSorted(SubSeq(sorted, 1, Len(sorted) - 1), rec),
                     sorted[Len(sorted)])
         ELSE Append(sorted, rec)

RECURSIVE SortFrom(_, _, _)
SortFrom(recs, i, acc) ==
    IF i > Len(recs) THEN acc
    ELSE SortFrom(recs, i + 1, InsertSorted(acc, recs[i]))

\* a plausible bug: sorted(results) is called and its value dropped
SortByNameDiscarded(recs) == recs

SortByName(recs) == SortFrom(recs, 1, <<>>)

\* the part of normalize after the first loop: ids, slugs, sort
Finalize(d) == SortByName(AssignIds(d))

\* the first loop of normalize over a whole list
RECURSIVE DedupFrom(_, _, _, _)
DedupFrom(raws, i, d, t) ==
    IF i > Len(raws) THEN d
    ELSE DedupFrom(raws, i + 1, DedupStep(d, raws[i], t), t)

\* normalize(raw_restaurants) called when the clock reads t
Normalize(raws, t) == Finalize(DedupFrom(raws, 1, <<>>, t))

(***************************************************************************)
(* crawler.py                                                              *)
(*                                                                         *)
(* BASE_URL and the section prefix "/san-francisco" are abbreviated to     *)
(* "h" and "/sf" to keep the strings short; nothing in the code depends    *)
(* on their spelling.  A page is a record; anchors lists every <a href>   *)
(* of the page, in page order.  The hrefs of the model are                 *)
(* relative references: a path, then an optional ?query or #fragment.      *)
(***************************************************************************)
Base == <<104>>
Section == <<47, 115, 102>>
GuidesPart == <<47, 103, 117, 105, 100, 101, 115, 47>>
ReviewUrl(slug) == Base \o Section \o ReviewsPart \o slug
GuideUrl(slug) == Base \o Section \o GuidesPart \o slug

\* the constant SF_HUB of crawler.py (a name TLA+ reads as a fairness operator, hence SfHub)
SfHub == Base \o Section

\* urlparse(href).path of a relative reference: what precedes ? and #
UrlPath(href) ==
    LET cut == {i \in 1..Len(href) : href[i] \in {63, 35}}
    IN  IF cut = {} THEN href ELSE SubSeq(href, 1, MinOf(cut) - 1)

\* the regex class [\w-] on ASCII
IsSlugChar(c) == c \in (48..57) \cup (65..90) \cup (97..122) \cup {95, 45}

\* ^/san-francisco/<part>/[\w-]+$ matched against path
MatchSection(path, part) ==
    LET prefix == Section \o part
    IN  /\ Len(path) > Len(prefix)
        /\ SubSeq(path, 1, Len(prefix)) = prefix
        /\ \A i \in (Len(prefix) + 1)..Len(path) : IsSlugChar(path[i])

\* REVIEW_PATTERN.match(path)
IsReviewPath(path) == MatchSection(path, ReviewsPart)

\* a plausible bug: `if` in place of `elif`, and a guide pattern that takes
\* any section name
IsGuidePathAnySection(path) ==
    /\ Len(path) > Len(Section) + 1
    /\ SubSeq(path, 1, Len(Section) + 1) = Section \o <<47>>
    /\ \A i \in (Len(Section) + 2)..Len(path) : IsSlugChar(path[i]) \/ path[i] = 47

\* the elif branch: GUIDE_PATTERN.match(path), reached when the review
\* pattern did not match
IsGuidePath(path) == ~IsReviewPath(path) /\ MatchSection(path, GuidesPart)

\* parsed.path.rstrip("/") of every anchor of the page
LinkPaths(page) ==
    {RStripChar(UrlPath(page.anchors[i].href), 47) : i \in 1..Len(page.anchors)}

\* _extract_sf_links: urljoin(BASE_URL, path) of the matching paths
ExtractSfLinks(page) ==
    [reviews |-> {Base \o p : p \in {q \in LinkPaths(page) : IsReviewPath(q)}},
     guides |-> {Base \o p : p \in {q \in LinkPaths(page) : IsGuidePath(q)}}]

\* sorted(S) for a set of str
RECURSIVE Sorted(_)
Sorted(S) ==
    IF S = {} THEN <<>>
    ELSE LET m == CHOOSE x \in S : \A y \in S : x = y \/ StrLess(x, y)
         IN  <<m>> \o Sorted(S \ {m})

\* a plausible bug: the cut is one element too long
SliceToOneMore(seq, n) ==
    IF n >= 0
    THEN SubSeq(seq, 1, IF n + 1 < Len(seq) THEN n + 1 ELSE Len(seq))
    ELSE SubSeq(seq, 1, IF Len(seq) + n + 1 > 0 THEN Len(seq) + n + 1 ELSE 0)

\* seq[:n], n an int of either sign
SliceTo(seq, n) ==
    IF n >= 0
    THEN SubSeq(seq, 1, IF n < Len(seq) THEN n ELSE Len(seq))
    ELSE SubSeq(seq, 1, IF Len(seq) + n > 0 THEN Len(seq) + n ELSE 0)

\* a plausible bug: the traversal list is not sorted before it is cut
\* (it is taken in descending order)
GuidesToCrawlUnsorted(guides, limit) ==
    LET asc == Sorted(guides)
        desc == [i \in 1..Len(asc) |-> asc[Len(asc) + 1 - i]]
    IN  IF limit = <<>> THEN desc ELSE SliceTo(desc, limit[1])

\* guides_to_crawl: sorted(all_guides), cut to max_guides unless it is None
GuidesToCrawl(guides, limit) ==
    IF limit = <<>> THEN Sorted(guides) ELSE SliceTo(Sorted(guides), limit[1])

\* CrawlResult()
EmptyCrawlResult == [review_urls |-> <<>>, guide_urls |-> <<>>, failed_urls |-> <<>>]

\* a plausible bug: the failed root is not recorded
HubFailedUnrecorded(result) == result

\* hub_soup is None: result.failed_urls.append(SfHub); return result
HubFailed(result) ==
    [result EXCEPT !.failed_urls = Append(@, SfHub)]

\* a plausible bug: guides found inside a guide are queued for traversal
QueueAfterGuideRecursive(queue, new_guides) == queue \o Sorted(new_guides)

\* new_guides is only counted for the log: the traversal list is unchanged
QueueAfterGuide(queue, new_guides) == queue

\* a plausible bug: `break` in place of `continue` on a failed guide
NextAfterFailureBreak(i, queue) == Len(queue) + 1

\* guide_soup is None: ...; continue
NextAfterFailure(i, queue) == i + 1

(***************************************************************************)
(* extractor.py                                                            *)
(*                                                                         *)
(* A page (the parsed soup) is a record:                                   *)
(*   anchors  every <a href> in page order, with its href and its scope:   *)
(*            the path of the elements that enclose it inside <body>, so   *)
(*            that an element contains the anchors whose scope starts      *)
(*            with its path;                                               *)
(*   h1       <<>> without an <h1>, else <<the text of the first one>>;    *)
(*   jsonld   the ld+json scripts in page order, each as json.loads reads  *)
(*            it: kind "dict" (items holds the object), "list" (items      *)
(*            holds the elements), "other" for any other JSON value and    *)
(*            "malformed" when json.loads raises;                          *)
(*   imgs     every <img> with its src and data-src ("" when absent).      *)
(* An element of a JSON-LD list is an object (isdict) or not; an object    *)
(* gives @type as the list of str(t), name as str(name), address as a      *)
(* dict (parts: the four str() components), a str (parts: the value) or    *)
(* "other", geo as a dict of latitude and longitude or "other", and        *)
(* servesCuisine as a list or a str.  A geo component is a "number", is     *)
(* "missing", or is "bad" (float() raises).                                *)
(*                                                                         *)
(* Two long literals are abbreviated: "maps?query=" stands for             *)
(* "google.com/maps/search/?api=1&query=" and "cloudinary" for             *)
(* "res.cloudinary.com/the-infatuation".                                   *)
(***************************************************************************)
\* _GMAPS_PATTERN up to its group: "maps?query="
MapsQuery == <<109, 97, 112, 115, 63, 113, 117, 101, 114, 121, 61>>

\* "/cuisines/", "/neighborhoods/", "/perfect-for/"
CuisinesPart == <<47, 99, 117, 105, 115, 105, 110, 101, 115, 47>>
NeighborhoodsPart == <<47, 110, 101, 105, 103, 104, 98, 111, 114, 104, 111, 111, 100, 115, 47>>
PerfectForPart == <<47, 112, 101, 114, 102, 101, 99, 116, 45, 102, 111, 114, 47>>

\* "cloudinary", and the thumbnail markers "w_96", "w_128", "w_256"
Cloudinary == <<99, 108, 111, 117, 100, 105, 110, 97, 114, 121>>
Thumbnails == {<<119, 95, 57, 54>>, <<119, 95, 49, 50, 56>>, <<119, 95, 50, 53, 54>>}

\* "san francisco"
SanFrancisco == <<115, 97, 110, 32, 102, 114, 97, 110, 99, 105, 115, 99, 111>>

\* ", "
CommaSpace == <<44, 32>>

\* str.upper for one ASCII character
UpperChar(c) == IF c \in 97..122 THEN c - 32 ELSE c

\* a cased character
IsCased(c) == c \in (65..90) \cup (97..122)

\* str.title(): a letter that follows a letter is lowered, any other raised
Title(s) ==
    [i \in 1..Len(s) |->
        IF i > 1 /\ IsCased(s[i - 1]) THEN LowerChar(s[i]) ELSE UpperChar(s[i])]

\* _slug_to_name
SlugToName(slug) == Title([i \in 1..Len(slug) |-> IF slug[i] = 45 THEN 32 ELSE slug[i]])

\* value of a hexadecimal digit, -1 for any other character
HexVal(c) ==
    IF c \in 48..57 THEN c - 48
    ELSE IF c \in 65..70 THEN c - 55
    ELSE IF c \in 97..102 THEN c - 87
    ELSE 0 - 1

\* urllib.parse.unquote on ASCII: %XY becomes the character 16*X + Y
RECURSIVE UnquoteFrom(_, _)
UnquoteFrom(s, i) ==
    IF i > Len(s) THEN <<>>
    ELSE IF /\ s[i] = 37
            /\ i + 2 <= Len(s)
            /\ HexVal(s[i + 1]) >= 0
            /\ HexVal(s[i + 2]) >= 0
         THEN <<16 * HexVal(s[i + 1]) + HexVal(s[i + 2])>> \o UnquoteFrom(s, i + 3)
         ELSE <<s[i]>> \o UnquoteFrom(s, i + 1)

unquote(s) == UnquoteFrom(s, 1)

\* position of the first "+" of s, 0 when it has none
PlusAt(s) ==
    LET at == {i \in 1..Len(s) : s[i] = 43}
    IN  IF at = {} THEN 0 ELSE MinOf(at)

\* separator.join(parts)
RECURSIVE Join(_, _)
Join(parts, sep) ==
    IF parts = <<>> THEN <<>>
    ELSE IF Len(parts) = 1 THEN parts[1]
    ELSE parts[1] \o sep \o Join(Tail(parts), sep)

\* _GMAPS_PATTERN.search(href), IGNORECASE: <<>> for no match, else <<group 1>>,
\* what follows the first occurrence up to the end of the line
SearchMaps(href) ==
    LET n == Len(MapsQuery)
        hits == {i \in 1..(Len(href) - n) :
                    /\ Lower(SubSeq(href, i, i + n - 1)) = MapsQuery
                    /\ href[i + n] # 10}
    IN  IF hits = {} THEN <<>>
        ELSE LET s == MinOf(hits) + n
                 stop == {j \in s..Len(href) : href[j] = 10}
             IN  <<SubSeq(href, s, IF stop = {} THEN Len(href) ELSE MinOf(stop) - 1)>>

\* re.search of /san-francisco/<part>/([\w-]+) in href: <<>> or <<group 1>>
SearchSlug(href, part) ==
    LET prefix == Section \o part
        n == Len(prefix)
        hits == {i \in 1..(Len(href) - n) :
                    /\ SubSeq(href, i, i + n - 1) = prefix
                    /\ IsSlugChar(href[i + n])}
    IN  IF hits = {} THEN <<>>
        ELSE LET s == MinOf(hits) + n
                 stop == {j \in s..Len(href) : ~IsSlugChar(href[j])}
             IN  <<SubSeq(href, s, IF stop = {} THEN Len(href) ELSE MinOf(stop) - 1)>>

\* the loop `for anchor ...: m = pattern.search(href); if m: x = _slug_to_name(..)`
\* stopped at the first match: "" when no anchor matches
RECURSIVE FirstSlugName(_, _, _)
FirstSlugName(anchors, part, i) ==
    IF i > Len(anchors) THEN <<>>
    ELSE LET m == SearchSlug(anchors[i].href, part)
         IN  IF m # <<>> THEN SlugToName(m[1])
             ELSE FirstSlugName(anchors, part, i + 1)

\* perfect_for: the names of all perfect-for links, without repetition
RECURSIVE PerfectFor(_, _, _)
PerfectFor(anchors, i, acc) ==
    IF i > Len(anchors) THEN acc
    ELSE LET m == SearchSlug(anchors[i].href, PerfectForPart)
         IN  PerfectFor(anchors, i + 1,
                        IF m = <<>> THEN acc
                        ELSE UnionTags(acc, <<SlugToName(m[1])>>, 1))

\* address of a review page: the query of the first map link, after its
\* first "+" and stripped, or whole when it has no "+"
RECURSIVE ReviewAddress(_, _)
ReviewAddress(anchors, i) ==
    IF i > Len(anchors) THEN <<>>
    ELSE LET m == SearchMaps(anchors[i].href)
         IN  IF m = <<>> THEN ReviewAddress(anchors, i + 1)
             ELSE LET raw_query == unquote(m[1])
                      p == PlusAt(raw_query)
                  IN  IF p > 0
                      THEN Strip(SubSeq(raw_query, p + 1, Len(raw_query)))
                      ELSE raw_query

\* str(img.get("src", "") or img.get("data-src", ""))
ImgSrc(img) == IF NonEmpty(img.src) THEN img.src ELSE img.data_src

\* image_url: the first Cloudinary image that is not a thumbnail
RECURSIVE HeroImage(_, _)
HeroImage(imgs, i) ==
    IF i > Len(imgs) THEN <<>>
    ELSE LET src == ImgSrc(imgs[i])
         IN  IF ~Contains(src, Cloudinary) \/ \E t \in Thumbnails : Contains(src, t)
             THEN HeroImage(imgs, i + 1)
             ELSE src

\* the RawRestaurant a review-page strategy builds
ReviewEntity(name, address, neighborhood, cuisine, url, image_url, lat, lng, tags) ==
    [name |-> name, address |-> address,
     restaurant_url |-> url, source_url |-> url,
     neighborhood |-> neighborhood, cuisine |-> cuisine,
     image_url |-> image_url, tags |-> tags, lat |-> lat, lng |-> lng]

\* _extract_review_html: <<>> for None, else <<the RawRestaurant>>
ExtractReviewHtml(soup, url) ==
    IF soup.h1 = <<>> THEN <<>>
    ELSE LET name == Strip(soup.h1[1])
             cuisine == FirstSlugName(soup.anchors, CuisinesPart, 1)
         IN  IF ~NonEmpty(name) \/ Lower(name) = SanFrancisco THEN <<>>
             ELSE <<ReviewEntity(name,
                                 ReviewAddress(soup.anchors, 1),
                                 FirstSlugName(soup.anchors, NeighborhoodsPart, 1),
                                 cuisine,
                                 url,
                                 HeroImage(soup.imgs, 1),
                                 <<>>, <<>>,
                                 (IF NonEmpty(cuisine) THEN <<cuisine>> ELSE <<>>)
                                     \o PerfectFor(soup.anchors, 1, <<>>))>>

\* the accepted values of @type
RestaurantTypes == {"Restaurant", "FoodEstablishment", "LocalBusiness"}

\* `float(v) or None`, v a number or missing (the default 0)
FloatOrNone(v) == IF v.kind = "number" /\ v.value # 0 THEN <<v.value>> ELSE <<>>

\* lat, lng of a JSON-LD object: both assignments sit in one try block, so a
\* longitude float() rejects leaves the latitude assigned
GeoOf(geo) ==
    IF geo.kind # "dict" \/ geo.latitude.kind = "bad"
    THEN [lat |-> <<>>, lng |-> <<>>]
    ELSE IF geo.longitude.kind = "bad"
    THEN [lat |-> FloatOrNone(geo.latitude), lng |-> <<>>]
    ELSE [lat |-> FloatOrNone(geo.latitude), lng |-> FloatOrNone(geo.longitude)]

\* address of a JSON-LD object
AddressOf(address_obj) ==
    IF address_obj.kind = "dict"
    THEN Join(SelectSeq(address_obj.parts, NonEmpty), CommaSpace)
    ELSE IF address_obj.kind = "str" THEN address_obj.parts[1]
    ELSE <<>>

\* cuisine of a JSON-LD object
CuisineOf(cuisine_raw) ==
    IF cuisine_raw.kind = "list" THEN Join(cuisine_raw.items, CommaSpace)
    ELSE cuisine_raw.items[1]

\* _restaurant_from_jsonld for an object ld: <<>> for None
RestaurantFromJsonld(ld, source_url) ==
    IF ~\E i \in 1..Len(ld.types) : ld.types[i] \in RestaurantTypes THEN <<>>
    ELSE IF ~NonEmpty(Strip(ld.name)) THEN <<>>
    ELSE <<ReviewEntity(Strip(ld.name), AddressOf(ld.address), <<>>,
                        CuisineOf(ld.cuisine), source_url, <<>>,
                        GeoOf(ld.geo).lat, GeoOf(ld.geo).lng, <<>>)>>

\* _extract_jsonld: lists are spliced in, objects appended, the rest skipped
RECURSIVE ExtractJsonld(_, _)
ExtractJsonld(scripts, i) ==
    IF i > Len(scripts) THEN <<>>
    ELSE (IF scripts[i].kind \in {"list", "dict"} THEN scripts[i].items ELSE <<>>)
             \o ExtractJsonld(scripts, i + 1)

\* strategy 1 of extract_from_review: the first block that gives a
\* restaurant; ld.get raises AttributeError on an element that is no object
RECURSIVE FirstJsonld(_, _, _)
FirstJsonld(lds, url, i) ==
    IF i > Len(lds) THEN [raised |-> FALSE, result |-> <<>>]
    ELSE IF ~lds[i].isdict THEN [raised |-> TRUE, result |-> <<>>]
    ELSE IF RestaurantFromJsonld(lds[i], url) # <<>>
         THEN [raised |-> FALSE, result |-> RestaurantFromJsonld(lds[i], url)]
         ELSE FirstJsonld(lds, url, i + 1)

\* extract_from_review on a fetched page
ExtractFromReview(soup, url) ==
    LET first == FirstJsonld(ExtractJsonld(soup.jsonld, 1), url, 1)
    IN  IF first.raised \/ first.result # <<>> THEN first
        ELSE [raised |-> FALSE, result |-> ExtractReviewHtml(soup, url)]

\* review_links of a guide page: its slugs in order of first appearance
\* (the value kept for a slug is ReviewUrl(slug))
RECURSIVE ReviewLinks(_, _, _)
ReviewLinks(anchors, i, acc) ==
    IF i > Len(anchors) THEN acc
    ELSE LET path == RStripChar(UrlPath(anchors[i].href), 47)
             slug == SubSeq(path, Len(Section \o ReviewsPart) + 1, Len(path))
         IN  ReviewLinks(anchors, i + 1,
                         IF MatchSection(path, ReviewsPart)
                         THEN UnionTags(acc, <<slug>>, 1)
                         ELSE acc)

\* range(10): how many ancestors of a map link are searched
MaxAncestors == 10

\* p is a prefix of s
IsPrefix(p, s) == Len(p) <= Len(s) /\ SubSeq(s, 1, Len(p)) = p

\* parent.find_all("a", href=True) for the element at path
Inside(anchors, path) == SelectSeq(anchors, LAMBDA a : IsPrefix(path, a.scope))

\* the walk up from a map link: the first ancestor (its parent is level 1)
\* holding a cuisine or neighborhood link decides both
RECURSIVE Context(_, _, _)
Context(anchors, scope, level) ==
    IF level > MaxAncestors \/ level > Len(scope) + 1
    THEN [cuisine |-> <<>>, neighborhood |-> <<>>]
    ELSE LET inside == Inside(anchors, SubSeq(scope, 1, Len(scope) + 1 - level))
             cuisine == FirstSlugName(inside, CuisinesPart, 1)
             neighborhood == FirstSlugName(inside, NeighborhoodsPart, 1)
         IN  IF NonEmpty(cuisine) \/ NonEmpty(neighborhood)
             THEN [cuisine |-> cuisine, neighborhood |-> neighborhood]
             ELSE Context(anchors, scope, level + 1)

\* r_name.lower().replace(" ", "-")
NameSlug(r_name) ==
    [i \in 1..Len(r_name) |-> IF r_name[i] = 32 THEN 45 ELSE LowerChar(r_name[i])]

\* the fuzzy match of a mention against review_links: "" when none matches
RECURSIVE MatchReview(_, _, _)
MatchReview(slugs, name_slug, i) ==
    IF i > Len(slugs) THEN <<>>
    ELSE IF \/ slugs[i] = name_slug
            \/ Contains(name_slug, slugs[i])
            \/ Contains(slugs[i], name_slug)
         THEN ReviewUrl(slugs[i])
         ELSE MatchReview(slugs, name_slug, i + 1)

\* a plausible bug: the query is decoded as on review pages, the whole of it
\* being the address when it holds no '+'
GuideMentionAsReview(soup, k, guide_url) ==
    LET m == SearchMaps(soup.anchors[k].href)
    IN  IF m = <<>> THEN <<>>
        ELSE LET raw_query == unquote(m[1])
                 p == PlusAt(raw_query)
                 r_name == IF p > 0 THEN Strip(SubSeq(raw_query, 1, p - 1))
                           ELSE <<>>
                 r_address == IF p > 0
                              THEN Strip(SubSeq(raw_query, p + 1, Len(raw_query)))
                              ELSE raw_query
                 context == Context(soup.anchors, soup.anchors[k].scope, 1)
                 restaurant_url == MatchReview(ReviewLinks(soup.anchors, 1, <<>>),
                                               NameSlug(r_name), 1)
             IN  IF ~NonEmpty(r_name) THEN <<>>
                 ELSE <<[name |-> r_name, address |-> r_address,
                         restaurant_url |-> IF NonEmpty(restaurant_url)
                                            THEN restaurant_url ELSE guide_url,
                         source_url |-> guide_url,
                         neighborhood |-> context.neighborhood,
                         cuisine |-> context.cuisine,
                         image_url |-> <<>>,
                         tags |-> IF NonEmpty(context.cuisine)
                                  THEN <<context.cuisine>> ELSE <<>>,
                         lat |-> <<>>, lng |-> <<>>]>>

\* what the map link at position k of a guide page contributes: <<>> or
\* <<the RawRestaurant>>
GuideMention(soup, k, guide_url) ==
    LET m == SearchMaps(soup.anchors[k].href)
    IN  IF m = <<>> THEN <<>>
        ELSE LET raw_query == unquote(m[1])
                 p == PlusAt(raw_query)
                 r_name == IF p > 0 THEN Strip(SubSeq(raw_query, 1, p - 1))
                           ELSE raw_query
                 r_address == IF p > 0
                              THEN Strip(SubSeq(raw_query, p + 1, Len(raw_query)))
                              ELSE <<>>
                 context == Context(soup.anchors, soup.anchors[k].scope, 1)
                 restaurant_url == MatchReview(ReviewLinks(soup.anchors, 1, <<>>),
                                               NameSlug(r_name), 1)
             IN  IF ~NonEmpty(r_name) THEN <<>>
                 ELSE <<[name |-> r_name, address |-> r_address,
                         restaurant_url |-> IF NonEmpty(restaurant_url)
                                            THEN restaurant_url ELSE guide_url,
                         source_url |-> guide_url,
                         neighborhood |-> context.neighborhood,
                         cuisine |-> context.cuisine,
                         image_url |-> <<>>,
                         tags |-> IF NonEmpty(context.cuisine)
                                  THEN <<context.cuisine>> ELSE <<>>,
                         lat |-> <<>>, lng |-> <<>>]>>

\* _extract_guide_html
RECURSIVE ExtractGuideHtml(_, _, _)
ExtractGuideHtml(soup, guide_url, k) ==
    IF k > Len(soup.anchors) THEN <<>>
    ELSE GuideMention(soup, k, guide_url) \o ExtractGuideHtml(soup, guide_url, k + 1)

(***************************************************************************)
(* The observations normalize is given.                                    *)
(***************************************************************************)

\* RawRestaurant (perfect_for and rating_text are never read by normalize)
RawRestaurant(ident, payload) ==
    [name |-> ident.name, address |-> ident.address,
     restaurant_url |-> ident.restaurant_url, source_url |-> ident.source_url,
     neighborhood |-> payload.neighborhood, cuisine |-> payload.cuisine,
     image_url |-> payload.image_url, tags |-> payload.tags,
     lat |-> payload.lat, lng |-> payload.lng]

\* who the observation is about and where it was seen:
\* "Ab" on its review page h/sf/reviews/a, no address
OnReviewPage ==
    [name |-> <<65, 98>>, address |-> <<>>,
     restaurant_url |-> ReviewUrl(<<97>>), source_url |-> ReviewUrl(<<97>>)]

\* "aB " at "1s" on guide a, linked to h/sf/reviews/A/ (the same review)
OnGuideLinked ==
    [name |-> <<97, 66, 32>>, address |-> <<49, 115>>,
     restaurant_url |-> ReviewUrl(<<65, 47>>), source_url |-> GuideUrl(<<97>>)]

\* "Ab" at "1s" on guide b, no review link (restaurant_url is the guide)
OnGuideUnlinked ==
    [name |-> <<65, 98>>, address |-> <<49, 115>>,
     restaurant_url |-> GuideUrl(<<98>>), source_url |-> GuideUrl(<<98>>)]

\* "B" at "2s" on guide a, linked to h/sf/reviews/a
OtherNameLinked ==
    [name |-> <<66>>, address |-> <<50, 115>>,
     restaurant_url |-> ReviewUrl(<<97>>), source_url |-> GuideUrl(<<97>>)]

\* " " (no usable name) on review page b
Nameless ==
    [name |-> <<32>>, address |-> <<49, 115>>,
     restaurant_url |-> ReviewUrl(<<98>>), source_url |-> ReviewUrl(<<98>>)]

Idents == {OnReviewPage, OnGuideLinked, OnGuideUnlinked, OtherNameLinked, Nameless}

\* what else the page said: nothing
Sparse ==
    [neighborhood |-> <<>>, cuisine |-> <<>>, image_url |-> <<>>,
     tags |-> <<>>, lat |-> <<>>, lng |-> <<>>]

\* ... or a blank neighborhood with cuisine, image, tags and coordinates; a
\* longitude without latitude; other values
Payloads ==
    { Sparse,
      [neighborhood |-> <<32>>, cuisine |-> <<67>>, image_url |-> <<73>>,
       tags |-> << <<67>>, <<84>> >>, lat |-> <<1>>, lng |-> <<2>>],
      [neighborhood |-> <<78>>, cuisine |-> <<>>, image_url |-> <<74>>,
       tags |-> << <<84>>, <<85>> >>, lat |-> <<>>, lng |-> <<3>>],
      [neighborhood |-> <<77>>, cuisine |-> <<68>>, image_url |-> <<>>,
       tags |-> << <<84>> >>, lat |-> <<4>>, lng |-> <<5>>] }

\* every identity as a bare mention, and the two of one review with every
\* payload
RawSet ==
    {RawRestaurant(i, Sparse) : i \in Idents}
        \cup {RawRestaurant(i, p) : i \in {OnReviewPage, OnGuideLinked}, p \in Payloads}

RawLists == UNION {[1..n -> RawSet] : n \in 0..MaxRaw}

Clock == 1..MaxClock

(***************************************************************************)
(* State.                                                                  *)
(***************************************************************************)
VARIABLES
    pc,               \* where the program is
    web,              \* environment: the page each URL serves
    down,             \* environment: the URLs whose fetch fails
    max_guides,       \* crawl: its argument, <<>> for None
    all_reviews,      \* crawl: set of review URLs
    all_guides,       \* crawl: set of guide URLs
    guides_to_crawl,  \* crawl: the traversal list
    gi,               \* crawl: position in the traversal list
    result,           \* crawl: the CrawlResult
    all_restaurants,  \* extract_all: the list it builds
    er,               \* extract_all: position of the review loop
    eg,               \* extract_all: position of the guide loop
    trace,            \* the session.get and time.sleep calls made so far
    raw_restaurants,  \* normalize: its argument
    now,              \* normalize: datetime.now() read on entry
    idx,              \* normalize: position of the first loop
    deduped,          \* normalize: insertion-ordered dict key -> record
    results,          \* normalize: the returned list
    saved             \* NORMALIZED_PATH as written by each run so far

envVars == <<web, down, max_guides>>
crawlVars == <<all_reviews, all_guides, guides_to_crawl, gi, result>>
extractVars == <<all_restaurants, er, eg>>
normVars == <<raw_restaurants, now, idx, deduped, results>>
vars == <<pc, envVars, crawlVars, extractVars, trace, normVars, saved>>

(***************************************************************************)
(* The pages crawl can meet.                                               *)
(***************************************************************************)
GuideHref(slug) == Section \o GuidesPart \o slug
ReviewHref(slug) == Section \o ReviewsPart \o slug

Anchor(href, scope) == [href |-> href, scope |-> scope]

\* a page of links only, all directly in <body>
LinkPage(hrefs) ==
    [anchors |-> [i \in 1..Len(hrefs) |-> Anchor(hrefs[i], <<>>)],
     h1 |-> <<>>, jsonld |-> <<>>, imgs |-> <<>>]

\* no link; three guides out of order, one twice, and a review; a guide, two
\* reviews (one with a fragment) and a link that is neither; two guides and
\* a review with a query
Pages ==
    { LinkPage(<<>>),
      LinkPage(<< GuideHref(<<98, 47>>), ReviewHref(<<97>>), GuideHref(<<99>>),
                  GuideHref(<<97>>), GuideHref(<<98>>) >>),
      LinkPage(<< ReviewHref(<<98, 35, 120>>), GuideHref(<<99>>),
                  ReviewHref(<<97>>), Section \o <<47, 97, 98>> >>),
      LinkPage(<< ReviewHref(<<99, 63, 120>>), GuideHref(<<98>>),
                  GuideHref(<<97>>) >>) }

CrawlUrls == {SfHub, GuideUrl(<<97>>), GuideUrl(<<98>>), GuideUrl(<<99>>)}

\* None, or an int from -1 up
MaxGuidesArgs == {<<>>} \cup {<<n>> : n \in (-1)..MaxGuidesArg}

\* _fetch_page / _fetch: the parsed page as <<page>>, or <<>> for None when the
\* request raises (the URL is down, or nothing is served there)
Fetch(url) == IF url \in down \/ url \notin DOMAIN web THEN <<>> ELSE <<web[url]>>

GetCall(url) == [op |-> "get", url |-> url]
SleepCall == [op |-> "sleep", url |-> <<>>]

(***************************************************************************)
(* The pages of a whole run: a hub, two guides and two reviews.            *)
(***************************************************************************)
\* guides b and a and review a, out of order; or guide a alone
HubPages ==
    { LinkPage(<< GuideHref(<<98>>), ReviewHref(<<97>>), GuideHref(<<97>>) >>),
      LinkPage(<< GuideHref(<<97>>) >>) }

\* A guide with two sections.  The first links review a, has the map link
\* "MAPS?query=aB%20+1s" and the cuisine link c-d; the second has, one level
\* deeper, the map link "maps?query=B" (no "+") and a neighborhood link n.
\* Review b/ is linked from the body, which also has the map link
\* "maps?query=%20", a name of one space.
GuideSections ==
    [anchors |-> << Anchor(ReviewHref(<<97>>), <<1>>),
                    Anchor(<<77, 65, 80, 83, 63, 113, 117, 101, 114, 121, 61, 97, 66, 37, 50, 48, 43, 49, 115>>, <<1>>),
                    Anchor(Section \o CuisinesPart \o <<99, 45, 100>>, <<1>>),
                    Anchor(<<109, 97, 112, 115, 63, 113, 117, 101, 114, 121, 61, 66>>, <<2, 1>>),
                    Anchor(Section \o NeighborhoodsPart \o <<110>>, <<2>>),
                    Anchor(ReviewHref(<<98, 47>>), <<>>),
                    Anchor(<<109, 97, 112, 115, 63, 113, 117, 101, 114, 121, 61, 37, 50, 48>>, <<>>) >>,
     h1 |-> <<<<71>>>>, jsonld |-> <<>>, imgs |-> <<>>]

\* A guide without sections: a map link with no name ("maps?query=+2s"), the
\* map link "maps?query=Ab+1s", a link to guide c and one to review c#x,
\* which matches neither mention.
GuideFlat ==
    [anchors |-> << Anchor(<<109, 97, 112, 115, 63, 113, 117, 101, 114, 121, 61, 43, 50, 115>>, <<>>),
                    Anchor(<<109, 97, 112, 115, 63, 113, 117, 101, 114, 121, 61, 65, 98, 43, 49, 115>>, <<1>>),
                    Anchor(GuideHref(<<99>>), <<>>),
                    Anchor(ReviewHref(<<99, 35, 120>>), <<>>) >>,
     h1 |-> <<>>, jsonld |-> <<>>, imgs |-> <<>>]

GuidePages == {GuideSections, GuideFlat}

NumberValue(v) == [kind |-> "number", value |-> v]
MissingValue == [kind |-> "missing", value |-> 0]
BadValue == [kind |-> "bad", value |-> 0]

\* a JSON-LD object
LdObject(types, name, address, geo, cuisine) ==
    [isdict |-> TRUE, types |-> types, name |-> name, address |-> address,
     geo |-> geo, cuisine |-> cuisine]

\* the defaults of ld.get: address {}, geo {}, servesCuisine ""
NoAddress == [kind |-> "dict", parts |-> << <<>>, <<>>, <<>>, <<>> >>]
NoGeo == [kind |-> "dict", latitude |-> MissingValue, longitude |-> MissingValue]
NoCuisine == [kind |-> "str", items |-> << <<>> >>]

\* a JSON value that is not an object
NotAnObject ==
    [isdict |-> FALSE, types |-> <<>>, name |-> <<>>, address |-> NoAddress,
     geo |-> NoGeo, cuisine |-> NoCuisine]

\* A review without structured data: <h1> " Ab ", the cuisine link
\* /cuisines/c-d, the perfect-for link /perfect-for/t twice and the
\* perfect-for link /perfect-for/c-d, the map link "maps?query=Ab+%201s", a
\* thumbnail and a lazy-loaded hero image.
ReviewHtml ==
    [anchors |-> << Anchor(Section \o CuisinesPart \o <<99, 45, 100>>, <<>>),
                    Anchor(Section \o PerfectForPart \o <<116>>, <<1>>),
                    Anchor(Section \o PerfectForPart \o <<116>>, <<1>>),
                    Anchor(Section \o PerfectForPart \o <<99, 45, 100>>, <<1>>),
                    Anchor(<<109, 97, 112, 115, 63, 113, 117, 101, 114, 121, 61, 65, 98, 43, 37, 50, 48, 49, 115>>, <<>>) >>,
     h1 |-> <<<<32, 65, 98, 32>>>>,
     jsonld |-> <<>>,
     imgs |-> << [src |-> <<99, 108, 111, 117, 100, 105, 110, 97, 114, 121, 47, 119, 95, 57, 54, 47, 97>>, data_src |-> <<>>],
                 [src |-> <<>>, data_src |-> <<99, 108, 111, 117, 100, 105, 110, 97, 114, 121, 47, 74>>] >>]

\* A review with structured data: a script that does not parse, then a list
\* of an Article and a Restaurant "B" with a structured address, both
\* coordinates and two cuisines; its <h1> is not consulted.
ReviewJsonld ==
    [anchors |-> <<>>,
     h1 |-> <<<<88>>>>,
     jsonld |-> << [kind |-> "malformed", items |-> <<>>],
                   [kind |-> "list",
                    items |-> << LdObject(<<"Article">>, <<88>>, NoAddress, NoGeo, NoCuisine),
                                 LdObject(<<"Thing", "Restaurant">>, <<66>>,
                                          [kind |-> "dict",
                                           parts |-> <<<<50, 115>>, <<>>, <<83, 70>>, <<>> >>],
                                          [kind |-> "dict",
                                           latitude |-> NumberValue(4),
                                           longitude |-> NumberValue(5)],
                                          [kind |-> "list", items |-> <<<<67>>, <<68>>>>]) >>] >>,
     imgs |-> <<>>]

\* A review that yields nothing: a Restaurant whose name is blank, and the
\* <h1> "San Francisco".
ReviewNothing ==
    [anchors |-> <<>>,
     h1 |-> <<<<83, 97, 110, 32, 70, 114, 97, 110, 99, 105, 115, 99, 111>>>>,
     jsonld |-> << [kind |-> "dict",
                    items |-> << LdObject(<<"Restaurant">>, <<32>>, NoAddress,
                                          [kind |-> "other", latitude |-> MissingValue,
                                           longitude |-> MissingValue],
                                          NoCuisine) >>] >>,
     imgs |-> <<>>]

\* A review whose structured data is a list holding a string.
ReviewWrongShape ==
    [anchors |-> <<>>,
     h1 |-> <<<<65, 98>>>>,
     jsonld |-> << [kind |-> "list", items |-> <<NotAnObject>>] >>,
     imgs |-> <<>>]

ReviewPages == {ReviewHtml, ReviewJsonld, ReviewNothing, ReviewWrongShape}

\* a site: what the hub, guides a and b and reviews a and b serve
Site(hub, guide_a, guide_b, review_a, review_b) ==
    (SfHub :> hub) @@ (GuideUrl(<<97>>) :> guide_a) @@ (GuideUrl(<<98>>) :> guide_b)
        @@ (ReviewUrl(<<97>>) :> review_a) @@ (ReviewUrl(<<98>>) :> review_b)

Sites ==
    {Site(h, ga, gb, ra, rb) :
        h \in HubPages, ga \in GuidePages, gb \in GuidePages,
        ra \in ReviewPages, rb \in ReviewPages}

\* the URLs that may fail to load
Unreliable == {GuideUrl(<<97>>), ReviewUrl(<<97>>)}

(***************************************************************************)
(* crawl as a state machine: the hub fetch, one action per iteration of    *)
(* the guide loop, and the return.                                         *)
(***************************************************************************)
\* a plausible bug: the guide links found inside a guide are recorded
GuidesAfterGuideRecorded(guides, new_guides) == guides \cup new_guides

\* all_guides after a guide page: new_guides is computed and logged, never
\* added
GuidesAfterGuide(guides, new_guides) == guides

CrawlHub ==
    /\ pc = "crawl"
    /\ trace' = Append(trace, GetCall(SfHub))
    /\ IF Fetch(SfHub) = <<>>
       THEN /\ result' = HubFailed(EmptyCrawlResult)
            /\ pc' = "crawled"
            /\ UNCHANGED <<all_reviews, all_guides, guides_to_crawl, gi>>
       ELSE LET links == ExtractSfLinks(Fetch(SfHub)[1])
            IN  /\ all_reviews' = links.reviews
                /\ all_guides' = links.guides
                /\ guides_to_crawl' = GuidesToCrawl(links.guides, max_guides)
                /\ gi' = 1
                /\ result' = EmptyCrawlResult
                /\ pc' = "crawl_guides"
    /\ UNCHANGED <<envVars, extractVars, normVars, saved>>

CrawlGuide ==
    /\ pc = "crawl_guides"
    /\ gi <= Len(guides_to_crawl)
    /\ LET guide_url == guides_to_crawl[gi]
           guide_soup == Fetch(guide_url)
       IN  /\ trace' = trace \o <<SleepCall, GetCall(guide_url)>>
           /\ IF guide_soup = <<>>
              THEN /\ result' = [result EXCEPT !.failed_urls = Append(@, guide_url)]
                   /\ gi' = NextAfterFailure(gi, guides_to_crawl)
                   /\ UNCHANGED <<all_reviews, all_guides, guides_to_crawl>>
              ELSE LET links == ExtractSfLinks(guide_soup[1])
                   IN  /\ all_reviews' = all_reviews \cup (links.reviews \ all_reviews)
                       /\ guides_to_crawl' =
                              QueueAfterGuide(guides_to_crawl, links.guides \ all_guides)
                       /\ all_guides' = GuidesAfterGuide(all_guides, links.guides \ all_guides)
                       /\ gi' = gi + 1
                       /\ UNCHANGED result
    /\ UNCHANGED <<pc, envVars, extractVars, normVars, saved>>

CrawlReturn ==
    /\ pc = "crawl_guides"
    /\ gi > Len(guides_to_crawl)
    /\ result' = [result EXCEPT !.review_urls = Sorted(all_reviews),
                                !.guide_urls = Sorted(all_guides)]
    /\ pc' = "crawled"
    /\ UNCHANGED <<all_reviews, all_guides, guides_to_crawl, gi, trace,
                   envVars, extractVars, normVars, saved>>

\* the locals of a function that has not been entered
CrawlIdle ==
    /\ all_reviews = {}
    /\ all_guides = {}
    /\ guides_to_crawl = <<>>
    /\ gi = 1
    /\ result = EmptyCrawlResult

ExtractIdle ==
    /\ all_restaurants = <<>>
    /\ er = 1
    /\ eg = 1

NormalizeIdle ==
    /\ raw_restaurants = <<>>
    /\ now = 0
    /\ idx = 1
    /\ deduped = <<>>
    /\ results = <<>>

\* crawl entered on any site, with any URLs down and any max_guides
InitCrawl ==
    /\ pc = "crawl"
    /\ web \in [CrawlUrls -> Pages]
    /\ down \in SUBSET CrawlUrls
    /\ max_guides \in MaxGuidesArgs
    /\ CrawlIdle
    /\ ExtractIdle
    /\ trace = <<>>
    /\ NormalizeIdle
    /\ saved = <<>>

NextCrawl == CrawlHub \/ CrawlGuide \/ CrawlReturn

SpecCrawl == InitCrawl /\ [][NextCrawl]_vars

(***************************************************************************)
(* extract_all as a state machine: one action per iteration of each loop,  *)
(* and the return.  An exception no handler catches ends the process       *)
(* (pc = "raised").                                                        *)
(***************************************************************************)
ExtractReview ==
    /\ pc = "extract_all"
    /\ er <= Len(result.review_urls)
    /\ LET url == result.review_urls[er]
           soup == Fetch(url)
           found == IF soup = <<>> THEN [raised |-> FALSE, result |-> <<>>]
                    ELSE ExtractFromReview(soup[1], url)
       IN  IF found.raised
           THEN /\ pc' = "raised"
                /\ trace' = Append(trace, GetCall(url))
                /\ UNCHANGED <<all_restaurants, er>>
           ELSE /\ all_restaurants' = all_restaurants \o found.result
                /\ er' = er + 1
                /\ trace' = trace \o <<GetCall(url), SleepCall>>
                /\ UNCHANGED pc
    /\ UNCHANGED <<eg, envVars, crawlVars, normVars, saved>>

ExtractGuide ==
    /\ pc = "extract_all"
    /\ er > Len(result.review_urls)
    /\ eg <= Len(result.guide_urls)
    /\ LET url == result.guide_urls[eg]
           soup == Fetch(url)
       IN  /\ all_restaurants' =
                  all_restaurants
                      \o (IF soup = <<>> THEN <<>> ELSE ExtractGuideHtml(soup[1], url, 1))
           /\ trace' = trace \o <<GetCall(url), SleepCall>>
    /\ eg' = eg + 1
    /\ UNCHANGED <<pc, er, envVars, crawlVars, normVars, saved>>

ExtractReturn ==
    /\ pc = "extract_all"
    /\ er > Len(result.review_urls)
    /\ eg > Len(result.guide_urls)
    /\ pc' = "extracted"
    /\ UNCHANGED <<envVars, crawlVars, extractVars, trace, normVars, saved>>

(***************************************************************************)
(* normalize as a state machine: one action per iteration of the first     *)
(* loop, one for the rest of the function.                                 *)
(***************************************************************************)
NormalizeLoop ==
    /\ pc = "normalize"
    /\ idx <= Len(raw_restaurants)
    /\ deduped' = DedupStep(deduped, raw_restaurants[idx], now)
    /\ idx' = idx + 1
    /\ UNCHANGED <<pc, raw_restaurants, now, results, envVars, crawlVars,
                   extractVars, trace, saved>>

NormalizeReturn ==
    /\ pc = "normalize"
    /\ idx > Len(raw_restaurants)
    /\ results' = Finalize(deduped)
    /\ pc' = "normalized"
    /\ UNCHANGED <<raw_restaurants, now, idx, deduped, envVars, crawlVars,
                   extractVars, trace, saved>>

\* normalize entered with any bounded list, at any clock reading
InitNorm ==
    /\ pc = "normalize"
    /\ web = <<>>
    /\ down = {}
    /\ max_guides = <<>>
    /\ CrawlIdle
    /\ ExtractIdle
    /\ trace = <<>>
    /\ raw_restaurants \in RawLists
    /\ now \in Clock
    /\ idx = 1
    /\ deduped = <<>>
    /\ results = <<>>
    /\ saved = <<>>

NextNorm == NormalizeLoop \/ NormalizeReturn

SpecNorm == InitNorm /\ [][NextNorm]_vars

(***************************************************************************)
(* main of run.py, --refresh: crawl, extract_all, normalize, then the      *)
(* canonical output is written.  The program is run MaxRuns times on the   *)
(* same site; the clock never goes back.  (The raw dump, geocoding and the *)
(* image download that follow are outside the model.)                      *)
(***************************************************************************)
\* raw_restaurants = extract_all(crawl_result.review_urls, crawl_result.guide_urls)
MainExtract ==
    /\ pc = "crawled"
    /\ pc' = "extract_all"
    /\ all_restaurants' = <<>>
    /\ er' = 1
    /\ eg' = 1
    /\ UNCHANGED <<envVars, crawlVars, trace, normVars, saved>>

\* normalized = normalize(raw_restaurants), up to `now = datetime.now(...)`
MainNormalize ==
    /\ pc = "extracted"
    /\ pc' = "normalize"
    /\ raw_restaurants' = all_restaurants
    /\ now' \in {t \in Clock : t >= now}
    /\ idx' = 1
    /\ deduped' = <<>>
    /\ results' = <<>>
    /\ UNCHANGED <<envVars, crawlVars, extractVars, trace, saved>>

\* _save_json(normalized, NORMALIZED_PATH)
MainSave ==
    /\ pc = "normalized"
    /\ pc' = "saved"
    /\ saved' = Append(saved, results)
    /\ UNCHANGED <<envVars, crawlVars, extractVars, trace, normVars>>

\* the program is started again: a new process, the same site
MainAgain ==
    /\ pc = "saved"
    /\ Len(saved) < MaxRuns
    /\ pc' = "crawl"
    /\ all_reviews' = {}
    /\ all_guides' = {}
    /\ guides_to_crawl' = <<>>
    /\ gi' = 1
    /\ result' = EmptyCrawlResult
    /\ all_restaurants' = <<>>
    /\ er' = 1
    /\ eg' = 1
    /\ trace' = <<>>
    /\ raw_restaurants' = <<>>
    /\ idx' = 1
    /\ deduped' = <<>>
    /\ results' = <<>>
    /\ UNCHANGED <<envVars, now, saved>>

InitPipe ==
    /\ pc = "crawl"
    /\ web \in Sites
    /\ down \in SUBSET Unreliable
    /\ max_guides \in MaxGuidesArgs
    /\ CrawlIdle
    /\ ExtractIdle
    /\ trace = <<>>
    /\ NormalizeIdle
    /\ saved = <<>>

NextPipe ==
    \/ CrawlHub \/ CrawlGuide \/ CrawlReturn
    \/ MainExtract \/ ExtractReview \/ ExtractGuide \/ ExtractReturn
    \/ MainNormalize \/ NormalizeLoop \/ NormalizeReturn
    \/ MainSave \/ MainAgain

SpecPipe == InitPipe /\ [][NextPipe]_vars

(***************************************************************************)
(* Vocabulary of the claims about normalize.                               *)
(***************************************************************************)
\* the observations the first loop has consumed so far
Consumed == 1..(idx - 1)

\* restaurant_url "points at a review-style page"
ReviewStyle(r) ==
    NonEmpty(r.restaurant_url) /\ Contains(r.restaurant_url, ReviewsPart)

\* two URLs equal after case and trailing-slash normalization
SameUrl(u, v) == Lower(RStripChar(u, 47)) = Lower(RStripChar(v, 47))

\* the consumed observations folded into merge-group g, by position
Members(g) ==
    {i \in Consumed : /\ ~Discarded(raw_restaurants[i])
                      /\ DedupKey(raw_restaurants[i]) = deduped[g].key}

\* the identifier merge-group g computes
GroupId(g) == MakeId(deduped[g].rec.name, deduped[g].rec.address)

\* an earlier merge-group computes the same identifier as g
Collides(g) == \E h \in 1..(g - 1) : GroupId(h) = GroupId(g)

IdSet(recs) == {recs[j].id : j \in 1..Len(recs)}

Orderings(n) ==
    {p \in [1..n -> 1..n] : \A i, j \in 1..n : p[i] = p[j] => i = j}

\* the scalar fields of a record that are non-empty
Filled(rec) ==
    {f \in {"address", "neighborhood", "cuisine", "restaurant_url", "image_url"} :
        NonEmpty(rec[f])}

ScalarFields == {"address", "neighborhood", "cuisine", "restaurant_url", "image_url"}

BothCoords(r) == TruthyNum(r.lat) /\ TruthyNum(r.lng)

(***************************************************************************)
(* C1.  The records normalize returns carry pairwise distinct ids: a       *)
(* merge-group whose id an earlier group already took is dropped, and the  *)
(* earlier group's record is returned with every field as the merge left   *)
(* it.                                                                     *)
(***************************************************************************)
C1_DistinctIds ==
    pc = "normalized" =>
        /\ \A i, j \in 1..Len(results) :
               i # j => results[i].id # results[j].id
        /\ Len(results) = Cardinality({g \in 1..Len(deduped) : ~Collides(g)})
        /\ \A g \in 1..Len(deduped) :
               ~Collides(g) =>
                   \E j \in 1..Len(results) :
                       /\ results[j].id = GroupId(g)
                       /\ \A f \in DOMAIN deduped[g].rec :
                              results[j][f] = deduped[g].rec[f]

\* two groups computed the same id, one of them was returned
C1_Witness ==
    /\ pc = "normalized"
    /\ \E g \in 1..Len(deduped) : Collides(g)
    /\ Len(results) >= 1

(***************************************************************************)
(* C2.  The set of ids normalize returns is the same for every             *)
(* permutation of its input list.                                          *)
(***************************************************************************)
C2_IdsIndependentOfOrder ==
    pc = "normalized" =>
        \A p \in Orderings(Len(raw_restaurants)) :
            IdSet(Normalize([i \in 1..Len(raw_restaurants) |->
                                 raw_restaurants[p[i]]], now))
                = IdSet(results)

(***************************************************************************)
(* C3.  For two observations A, B with the same dedup key, normalize of    *)
(* <<A, B>> and of <<B, A>> leave the same scalar fields non-empty.        *)
(***************************************************************************)
C3_FieldFillSymmetry ==
    ( /\ pc = "normalized"
      /\ Len(raw_restaurants) = 2
      /\ ~Discarded(raw_restaurants[1])
      /\ ~Discarded(raw_restaurants[2])
      /\ DedupKey(raw_restaurants[1]) = DedupKey(raw_restaurants[2]) )
    => LET other == Normalize(<<raw_restaurants[2], raw_restaurants[1]>>, now)
       IN  /\ Len(results) = 1
           /\ Len(other) = 1
           /\ Filled(results[1]) = Filled(other[1])

(***************************************************************************)
(* C4.  Fill gaps, never overwrite: in every iteration of the merge loop,  *)
(* a scalar field of a group's record that is non-empty keeps its value,   *)
(* and one that is empty takes the value the observation merged into the   *)
(* group carries for it (so it stays empty until the first observation     *)
(* that has it).                                                           *)
(***************************************************************************)
C4_FillGapsNeverOverwrite ==
    [][ (pc = "normalize" /\ idx' = idx + 1) =>
          \A g \in 1..Len(deduped) : \A f \in ScalarFields :
              LET raw == raw_restaurants[idx]
                  merged == ~Discarded(raw) /\ DedupKey(raw) = deduped[g].key
              IN  /\ g <= Len(deduped')
                  /\ NonEmpty(deduped[g].rec[f]) =>
                         deduped'[g].rec[f] = deduped[g].rec[f]
                  /\ (~NonEmpty(deduped[g].rec[f]) /\ merged) =>
                         deduped'[g].rec[f] = raw[f]
                  /\ ~merged => deduped'[g].rec[f] = deduped[g].rec[f]
      ]_vars

\* three observations of one group: no address, then an address that is
\* taken, then another address that is ignored
C4_Witness ==
    /\ idx = 4
    /\ Len(deduped) = 1
    /\ Members(1) = {1, 2, 3}
    /\ ~NonEmpty(raw_restaurants[1].address)
    /\ NonEmpty(raw_restaurants[2].address)
    /\ NonEmpty(raw_restaurants[3].address)
    /\ raw_restaurants[3].address # raw_restaurants[2].address
    /\ deduped[1].rec.address = raw_restaurants[2].address

(***************************************************************************)
(* C5.  Coordinate precedence: at every point of the merge loop a group's  *)
(* record carries the coordinate pair of the last observation after the    *)
(* first that supplied both latitude and longitude, and the pair of the    *)
(* first observation when no later one did; the returned records carry     *)
(* these pairs.                                                            *)
(***************************************************************************)
CoordSource(g) ==
    LET first == MinOf(Members(g))
        later == {i \in Members(g) : i > first /\ BothCoords(raw_restaurants[i])}
    IN  IF later = {} THEN first ELSE MaxOf(later)

C5_CoordinatePrecedence ==
    /\ \A g \in 1..Len(deduped) :
           /\ deduped[g].rec.lat = raw_restaurants[CoordSource(g)].lat
           /\ deduped[g].rec.lng = raw_restaurants[CoordSource(g)].lng
    /\ pc = "normalized" =>
           \A j \in 1..Len(results) : \E g \in 1..Len(deduped) :
               /\ results[j].id = GroupId(g)
               /\ results[j].lat = raw_restaurants[CoordSource(g)].lat
               /\ results[j].lng = raw_restaurants[CoordSource(g)].lng

\* a pair overwritten by a later pair, then an observation with only a
\* longitude that changes nothing
C5_Witness ==
    /\ pc = "normalized"
    /\ Len(deduped) = 1
    /\ Members(1) = {1, 2, 3}
    /\ BothCoords(raw_restaurants[1])
    /\ BothCoords(raw_restaurants[2])
    /\ raw_restaurants[1].lat # raw_restaurants[2].lat
    /\ ~BothCoords(raw_restaurants[3])
    /\ raw_restaurants[3].lng # <<>>
    /\ Len(results) = 1
    /\ results[1].lat = raw_restaurants[2].lat
    /\ results[1].lng = raw_restaurants[2].lng

(***************************************************************************)
(* C6.  Observations whose review URL is the same after case and           *)
(* trailing-slash normalization end in exactly one returned record, whose  *)
(* source_urls holds the source page of each of them.                      *)
(***************************************************************************)
\* the usable observations that name the review page of observation i
SameReview(i) ==
    {k \in 1..Len(raw_restaurants) :
        /\ ~Discarded(raw_restaurants[k])
        /\ ReviewStyle(raw_restaurants[k])
        /\ SameUrl(raw_restaurants[k].restaurant_url,
                   raw_restaurants[i].restaurant_url)}

\* the returned records that name the review page of observation i
RecordsFor(i) ==
    {j \in 1..Len(results) :
        /\ ReviewStyle(results[j])
        /\ SameUrl(results[j].restaurant_url, raw_restaurants[i].restaurant_url)}

HoldsSources(j, i) ==
    \A k \in SameReview(i) :
        NonEmpty(raw_restaurants[k].source_url) =>
            \E n \in 1..Len(results[j].source_urls) :
                results[j].source_urls[n] = raw_restaurants[k].source_url

C6_OneRecordPerReviewUrl ==
    pc = "normalized" =>
        \A i \in 1..Len(raw_restaurants) :
            i \in SameReview(i) =>
                \E j \in 1..Len(results) :
                    RecordsFor(i) = {j} /\ HoldsSources(j, i)

(***************************************************************************)
(* C6, amended.  Such observations form one merge-group; it ends in        *)
(* exactly one returned record, whose source_urls holds the source page    *)
(* of each of them, unless the group's id was already taken by an earlier  *)
(* group, and then in none.                                                *)
(***************************************************************************)
\* the merge-groups that name the review page of observation i
GroupsFor(i) ==
    {g \in 1..Len(deduped) :
        /\ ReviewStyle(deduped[g].rec)
        /\ SameUrl(deduped[g].rec.restaurant_url,
                   raw_restaurants[i].restaurant_url)}

C6_OneRecordUnlessIdTaken ==
    pc = "normalized" =>
        \A i \in 1..Len(raw_restaurants) :
            i \in SameReview(i) =>
                \E g \in 1..Len(deduped) :
                    /\ GroupsFor(i) = {g}
                    /\ IF Collides(g)
                       THEN RecordsFor(i) = {}
                       ELSE \E j \in 1..Len(results) :
                                RecordsFor(i) = {j} /\ HoldsSources(j, i)

\* two spellings of one review URL, seen on two pages, in one record
C6_Witness ==
    /\ pc = "normalized"
    /\ \E i, k \in 1..Len(raw_restaurants) :
           /\ i \in SameReview(i)
           /\ k \in SameReview(i)
           /\ raw_restaurants[i].restaurant_url # raw_restaurants[k].restaurant_url
           /\ raw_restaurants[i].source_url # raw_restaurants[k].source_url
           /\ \E j \in 1..Len(results) :
                  /\ RecordsFor(i) = {j}
                  /\ HoldsSources(j, i)
                  /\ Len(results[j].source_urls) >= 2

(***************************************************************************)
(* C7.  Two runs over the same page content produce identical canonical   *)
(* output: the same sequence of records with every field equal.           *)
(***************************************************************************)
C7_IdenticalOutput ==
    \A i, j \in 1..Len(saved) : saved[i] = saved[j]

\* the records of an output with the timestamp masked
Timeless(recs) == [k \in 1..Len(recs) |-> [recs[k] EXCEPT !.last_seen_at = 0]]

(***************************************************************************)
(* C7, amended.  Two runs over the same page content (and the same fetch  *)
(* failures) produce the same sequence of records with every field equal  *)
(* except last_seen_at, which carries the clock reading of its own run.   *)
(***************************************************************************)
C7_IdenticalButLastSeen ==
    \A i, j \in 1..Len(saved) :
        /\ Timeless(saved[i]) = Timeless(saved[j])
        /\ \A k \in 1..Len(saved[i]) :
               saved[i][k].last_seen_at \in Clock
        /\ (pc = "saved" /\ i = Len(saved)) =>
               \A k \in 1..Len(saved[i]) : saved[i][k].last_seen_at = now

\* two runs at different clock readings wrote several records, one merged
\* from several pages, although a page failed to load
C7_Witness ==
    /\ Len(saved) = 2
    /\ Len(saved[1]) > 1
    /\ \E k \in 1..Len(saved[1]) : Len(saved[1][k].source_urls) > 1
    /\ saved[1][1].last_seen_at < saved[2][1].last_seen_at
    /\ result.failed_urls # <<>>

(***************************************************************************)
(* Vocabulary of the claims about crawl.                                   *)
(***************************************************************************)
\* the URLs requested so far, in order
RECURSIVE GetsFrom(_, _)
GetsFrom(tr, i) ==
    IF i > Len(tr) THEN <<>>
    ELSE (IF tr[i].op = "get" THEN <<tr[i].url>> ELSE <<>>) \o GetsFrom(tr, i + 1)

Fetched == {GetsFrom(trace, 1)[i] : i \in 1..Len(GetsFrom(trace, 1))}

Elements(seq) == {seq[i] : i \in 1..Len(seq)}

HubDown == SfHub \in down

\* the links on the root page (when it loads)
RootLinks == ExtractSfLinks(web[SfHub])

(***************************************************************************)
(* C8.  When the root page cannot be fetched crawl aborts at once: the     *)
(* guide loop is never entered, the root is the only URL requested, and    *)
(* the result is empty review_urls, empty guide_urls and failed_urls =     *)
(* [root].                                                                 *)
(***************************************************************************)
C8_RootFailureAborts ==
    HubDown =>
        /\ pc # "crawl_guides"
        /\ pc = "crawled" =>
               /\ result.review_urls = <<>>
               /\ result.guide_urls = <<>>
               /\ result.failed_urls = <<SfHub>>
               /\ GetsFrom(trace, 1) = <<SfHub>>

\* the root is down although it would have listed guides and reviews
C8_Witness ==
    /\ pc = "crawled"
    /\ HubDown
    /\ RootLinks.guides # {}
    /\ RootLinks.reviews # {}
    /\ \E g \in RootLinks.guides : g \notin down

(***************************************************************************)
(* C9.  Every URL crawl requests is the root or a guide link found on the  *)
(* root page; a guide link found only inside a guide page is never         *)
(* requested.                                                              *)
(***************************************************************************)
C9_DepthOne ==
    \A u \in Fetched :
        u = SfHub \/ (~HubDown /\ u \in RootLinks.guides)

\* a guide that loaded links to a guide the root does not list, and the
\* crawl returned without requesting it
C9_Witness ==
    /\ pc = "crawled"
    /\ ~HubDown
    /\ \E g \in Fetched \ {SfHub} :
           /\ g \notin down
           /\ \E h \in ExtractSfLinks(web[g]).guides :
                  /\ h \notin RootLinks.guides
                  /\ h \notin down
                  /\ h \notin Fetched

(***************************************************************************)
(* C10.  A guide that fails to load never aborts discovery.  In the guide  *)
(* loop a failed fetch appends the URL to failed_urls and moves to the     *)
(* next guide; when crawl has returned after loading the root, every guide *)
(* of the traversal list was requested, failed_urls holds exactly the      *)
(* requested URLs that failed, and the review links of every page that     *)
(* loaded are in review_urls.                                              *)
(***************************************************************************)
C10_Returned ==
    (pc = "crawled" /\ ~HubDown) =>
        /\ Elements(GuidesToCrawl(RootLinks.guides, max_guides)) \subseteq Fetched
        /\ Elements(result.failed_urls) = Fetched \cap down
        /\ \A u \in Fetched \ down :
               ExtractSfLinks(web[u]).reviews \subseteq Elements(result.review_urls)

C10_Step ==
    (pc = "crawl_guides" /\ gi <= Len(guides_to_crawl)
        /\ guides_to_crawl[gi] \in down) =>
        /\ pc' = "crawl_guides"
        /\ gi' = gi + 1
        /\ guides_to_crawl' = guides_to_crawl
        /\ result'.failed_urls = Append(result.failed_urls, guides_to_crawl[gi])

C10_GuideFailureContinues ==
    [][C10_Step]_vars /\ []C10_Returned

\* the first guide failed, a later guide loaded and brought a review link
\* the root does not have
C10_Witness ==
    /\ pc = "crawled"
    /\ ~HubDown
    /\ Len(guides_to_crawl) >= 2
    /\ guides_to_crawl[1] \in down
    /\ \E k \in 2..Len(guides_to_crawl) :
           /\ guides_to_crawl[k] \notin down
           /\ \E r \in ExtractSfLinks(web[guides_to_crawl[k]]).reviews :
                  /\ r \notin RootLinks.reviews
                  /\ r \in Elements(result.review_urls)
    /\ guides_to_crawl[1] \in Elements(result.failed_urls)

(***************************************************************************)
(* C11.  With max_guides = n (a count, n >= 0) and a root that loads,     *)
(* the guide URLs crawl requests are, in this order, the min(n, number of  *)
(* root guides) least root guide URLs in ascending order, and nothing      *)
(* else but the root is requested; with n = 0 the returned review URLs     *)
(* are exactly those of the root page and failed_urls is empty.            *)
(***************************************************************************)
\* the guide URLs requested so far, in order (the first request is the root)
GuidesFetched == Tail(GetsFrom(trace, 1))

\* seq is strictly ascending: sorted and free of duplicates
Ascending(seq) == \A i \in 1..(Len(seq) - 1) : StrLess(seq[i], seq[i + 1])

C11_MaxGuidesPrefix ==
    (~HubDown /\ pc # "crawl" /\ max_guides # <<>> /\ max_guides[1] >= 0) =>
        LET n == max_guides[1]
            roots == RootLinks.guides
            m == IF n < Cardinality(roots) THEN n ELSE Cardinality(roots)
        IN  /\ GetsFrom(trace, 1)[1] = SfHub
            /\ Ascending(GuidesFetched)
            /\ Elements(GuidesFetched) \subseteq roots
            /\ \A f \in Elements(GuidesFetched) :
                   \A g \in roots \ Elements(GuidesFetched) : StrLess(f, g)
            /\ Len(GuidesFetched) <= m
            /\ pc = "crawled" =>
                   /\ Len(GuidesFetched) = m
                   /\ n = 0 =>
                          /\ Elements(result.review_urls) = RootLinks.reviews
                          /\ result.failed_urls = <<>>

\* the root lists three guides and one review, one guide was requested
\* under max_guides = 1
C11_Witness ==
    /\ pc = "crawled"
    /\ ~HubDown
    /\ max_guides = <<1>>
    /\ Cardinality(RootLinks.guides) = 3
    /\ Len(GuidesFetched) = 1

(***************************************************************************)
(* C12.  Whatever the pages hold and whichever fetches fail, each of the   *)
(* lists review_urls, guide_urls and failed_urls of the result is in       *)
(* ascending order and free of duplicates.                                 *)
(***************************************************************************)
C12_ResultListsSorted ==
    /\ Ascending(result.review_urls)
    /\ Ascending(result.guide_urls)
    /\ Ascending(result.failed_urls)

\* two guides failed, and two reviews and two guides were found
C12_Witness ==
    /\ pc = "crawled"
    /\ Len(result.failed_urls) >= 2
    /\ Len(result.review_urls) >= 2
    /\ Len(result.guide_urls) >= 2

(***************************************************************************)
(* C13.  _extract_sf_links never returns the same link in its review set   *)
(* and in its guide set: this holds of every page crawl has parsed, and    *)
(* of the sets crawl accumulates from them.                                *)
(***************************************************************************)
\* the pages crawl has fetched and parsed so far
Parsed == {web[u] : u \in Fetched \ down}

C13_ReviewAndGuideDisjoint ==
    /\ \A page \in Parsed :
           ExtractSfLinks(page).reviews \cap ExtractSfLinks(page).guides = {}
    /\ all_reviews \cap all_guides = {}

\* a parsed page gave links of both kinds, under one slug
C13_Witness ==
    \E page \in Parsed :
        \E r \in ExtractSfLinks(page).reviews :
            \E g \in ExtractSfLinks(page).guides :
                \E slug \in {<<97>>, <<98>>, <<99>>} :
                    r = ReviewUrl(slug) /\ g = GuideUrl(slug)

(***************************************************************************)
(* C15.  normalize discards every observation whose name is empty or made  *)
(* of white space only: the merge-groups, and the returned list, are those *)
(* of the same input without these observations, so that a discarded       *)
(* observation creates no record and contributes no field, tag or source   *)
(* URL; and no record, in a group or returned, has an empty name.          *)
(***************************************************************************)
\* the name is empty or white space only
Blank(r) == \A i \in 1..Len(r.name) : IsSpace(r.name[i])

Kept(r) == ~Blank(r)

\* the observations of raws that are not blank, in order
WithoutBlank(raws) == SelectSeq(raws, Kept)

C15_BlankNamesDiscarded ==
    /\ deduped = DedupFrom(WithoutBlank(SubSeq(raw_restaurants, 1, idx - 1)),
                           1, <<>>, now)
    /\ \A g \in 1..Len(deduped) : deduped[g].rec.name # <<>>
    /\ pc = "normalized" =>
           /\ results = Normalize(WithoutBlank(raw_restaurants), now)
           /\ \A j \in 1..Len(results) : results[j].name # <<>>

\* a blank observation was consumed between two others that made a record
C15_Witness ==
    /\ pc = "normalized"
    /\ Len(raw_restaurants) = 3
    /\ Blank(raw_restaurants[2])
    /\ Kept(raw_restaurants[1])
    /\ Kept(raw_restaurants[3])
    /\ Len(results) = 2

(***************************************************************************)
(* C16.  The list normalize returns is ordered by lowercased name: no      *)
(* record is followed by one whose lowercased name is smaller.             *)
(***************************************************************************)
C16_SortedByLowerName ==
    pc = "normalized" =>
        \A j \in 1..(Len(results) - 1) :
            ~StrLess(Lower(results[j + 1].name), Lower(results[j].name))

\* two records are returned in the reverse of the order their groups were
\* created in
C16_Witness ==
    /\ pc = "normalized"
    /\ Len(results) = 2
    /\ Len(deduped) = 2
    /\ StrLess(Lower(deduped[2].rec.name), Lower(deduped[1].rec.name))
    /\ results[1].name = deduped[2].rec.name

(***************************************************************************)
(* C17.  In every returned record, tags is the order-preserving union of   *)
(* the tag lists of the observations of its merge-group, no string         *)
(* occurring twice, and source_urls is the list of their source pages in   *)
(* order, no URL occurring twice.                                          *)
(***************************************************************************)
\* seq without the later occurrences of its elements
RECURSIVE Uniq(_, _, _)
Uniq(seq, i, acc) ==
    IF i > Len(seq) THEN acc
    ELSE Uniq(seq, i + 1,
              IF \E j \in 1..Len(acc) : acc[j] = seq[i]
              THEN acc ELSE Append(acc, seq[i]))

\* the tag lists of the members of group g, one after the other
RECURSIVE TagsOf(_, _)
TagsOf(g, i) ==
    IF i > Len(raw_restaurants) THEN <<>>
    ELSE (IF i \in Members(g) THEN raw_restaurants[i].tags ELSE <<>>)
             \o TagsOf(g, i + 1)

\* the source pages of the members of group g, in order
RECURSIVE SourcesOf(_, _)
SourcesOf(g, i) ==
    IF i > Len(raw_restaurants) THEN <<>>
    ELSE (IF i \in Members(g) /\ raw_restaurants[i].source_url # <<>>
          THEN <<raw_restaurants[i].source_url>> ELSE <<>>)
             \o SourcesOf(g, i + 1)

\* the returned record j is the record of merge-group g
RecordOf(j, g) == results[j].id = GroupId(g) /\ ~Collides(g)

C17_TagsAndSourcesUnion ==
    pc = "normalized" =>
        \A j \in 1..Len(results) :
            \A g \in 1..Len(deduped) :
                RecordOf(j, g) =>
                    /\ results[j].tags = Uniq(TagsOf(g, 1), 1, <<>>)
                    /\ results[j].source_urls = Uniq(SourcesOf(g, 1), 1, <<>>)

(***************************************************************************)
(* C14.  No single page aborts the extraction batch: extract_all never     *)
(* ends in an exception, and when it returns it has gone through every     *)
(* review URL and every guide URL it was given.                            *)
(***************************************************************************)
C14_NoPageAbortsBatch ==
    /\ pc # "raised"
    /\ pc = "extracted" =>
           /\ er = Len(result.review_urls) + 1
           /\ eg = Len(result.guide_urls) + 1

(***************************************************************************)
(* C18.  During a pipeline run a wait of request_delay lies between every  *)
(* page fetch and the next one: no request is followed at once by another  *)
(* request.                                                                *)
(***************************************************************************)
C18_DelayBetweenFetches ==
    \A i \in 1..(Len(trace) - 1) :
        ~(trace[i].op = "get" /\ trace[i + 1].op = "get")

(***************************************************************************)
(* C19.  extract_from_review returns the entity of the first               *)
(* structured-data block, in page order, whose type is one of Restaurant,  *)
(* FoodEstablishment, LocalBusiness and whose trimmed name is not empty;   *)
(* when no block is accepted it returns what the HTML heuristics find,     *)
(* which is nothing when they find no usable name; in every case at most   *)
(* one entity is added for the page.                                       *)
(***************************************************************************)
\* the structured-data block ld is accepted
Accepted(ld) ==
    /\ ld.isdict
    /\ \E i \in 1..Len(ld.types) : ld.types[i] \in RestaurantTypes
    /\ Strip(ld.name) # <<>>

\* what the chain is to return for the page soup of url: <<>> or <<entity>>
ChainResult(soup, url) ==
    LET blocks == ExtractJsonld(soup.jsonld, 1)
        accepted == {i \in 1..Len(blocks) : Accepted(blocks[i])}
    IN  IF accepted # {}
        THEN RestaurantFromJsonld(blocks[MinOf(accepted)], url)
        ELSE ExtractReviewHtml(soup, url)

\* the step of extract_all on the review page it is at
C19_Step ==
    (pc = "extract_all" /\ er <= Len(result.review_urls)) =>
        LET url == result.review_urls[er]
            expected == IF Fetch(url) = <<>> THEN <<>>
                        ELSE ChainResult(Fetch(url)[1], url)
        IN  /\ er' = er + 1
            /\ all_restaurants' = all_restaurants \o expected
            /\ Len(all_restaurants') <= Len(all_restaurants) + 1

C19_FirstSuccessWins == [][C19_Step]_vars

(***************************************************************************)
(* Vocabulary of the claims about guide pages.                             *)
(***************************************************************************)
\* the decoded queries of the map links of a page, in page order
RECURSIVE MapQueries(_, _)
MapQueries(anchors, k) ==
    IF k > Len(anchors) THEN <<>>
    ELSE (IF SearchMaps(anchors[k].href) = <<>> THEN <<>>
          ELSE <<unquote(SearchMaps(anchors[k].href)[1])>>)
             \o MapQueries(anchors, k + 1)

HasPlus(q) == \E i \in 1..Len(q) : q[i] = 43

FirstPlus(q) == MinOf({i \in 1..Len(q) : q[i] = 43})

\* the trimmed text before, and after, the first '+'
BeforePlus(q) == Strip(SubSeq(q, 1, FirstPlus(q) - 1))

AfterPlus(q) == Strip(SubSeq(q, FirstPlus(q) + 1, Len(q)))

\* the name a guide page takes from the decoded query q
MentionName(q) == IF HasPlus(q) THEN BeforePlus(q) ELSE q

Named(q) == MentionName(q) # <<>>

\* extract_all is at a guide page that loads
AtGuidePage ==
    /\ pc = "extract_all"
    /\ er > Len(result.review_urls)
    /\ eg <= Len(result.guide_urls)
    /\ Fetch(result.guide_urls[eg]) # <<>>

\* the decoded map-link queries of the guide page extract_all is at
QueriesHere == MapQueries(Fetch(result.guide_urls[eg])[1].anchors, 1)

\* the entities the step appends
Added == SubSeq(all_restaurants', Len(all_restaurants) + 1, Len(all_restaurants'))

(***************************************************************************)
(* C20 as stated.  On a guide page every map link gives exactly one        *)
(* candidate entity; when its decoded query holds a '+', the trimmed text  *)
(* before the first '+' is the name and the trimmed rest the address; when *)
(* it holds none, the whole decoded query is the address.                  *)
(***************************************************************************)
C20_StepAsReview ==
    AtGuidePage =>
        /\ Len(Added) = Len(QueriesHere)
        /\ \A k \in 1..Len(QueriesHere) :
               k <= Len(Added) =>
                   IF HasPlus(QueriesHere[k])
                   THEN /\ Added[k].name = BeforePlus(QueriesHere[k])
                        /\ Added[k].address = AfterPlus(QueriesHere[k])
                   ELSE Added[k].address = QueriesHere[k]

C20_MapLinkDecodedAsReview == [][C20_StepAsReview]_vars

(***************************************************************************)
(* C20 amended.  On a guide page every map link whose decoded name is not  *)
(* empty gives exactly one candidate entity, and a map link whose decoded  *)
(* name is empty gives none; when the decoded query holds a '+', the       *)
(* trimmed text before the first '+' is the name and the trimmed rest the  *)
(* address; when it holds none, the whole decoded query is the name and    *)
(* the address is empty.                                                   *)
(***************************************************************************)
C20_Step ==
    AtGuidePage =>
        LET named == SelectSeq(QueriesHere, Named)
        IN  /\ Len(Added) = Len(named)
            /\ \A k \in 1..Len(named) :
                   k <= Len(Added) =>
                       /\ Added[k].name = MentionName(named[k])
                       /\ Added[k].address =
                              IF HasPlus(named[k]) THEN AfterPlus(named[k]) ELSE <<>>
                       /\ Added[k].source_url = result.guide_urls[eg]

C20_MapLinkDecoded == [][C20_Step]_vars

\* extract_all has returned after a guide with the links "aB%20+1s" and "B"
\* and a guide with the link "+2s": the first gave "aB" at "1s", the second
\* "B" without address
C20_Witness ==
    /\ pc = "extracted"
    /\ \E u, v \in Elements(result.guide_urls) \ down :
           /\ web[u] = GuideSections
           /\ web[v] = GuideFlat
           /\ \E i, j \in 1..Len(all_restaurants) :
                  /\ all_restaurants[i].source_url = u
                  /\ all_restaurants[i].name = <<97, 66>>
                  /\ all_restaurants[i].address = <<49, 115>>
                  /\ all_restaurants[j].source_url = u
                  /\ all_restaurants[j].name = <<66>>
                  /\ all_restaurants[j].address = <<>>
           /\ Cardinality({i \in 1..Len(all_restaurants) :
                               all_restaurants[i].source_url = v}) = 1

(***************************************************************************)
(* Vocabulary of the claims about guide-only mentions.                     *)
(***************************************************************************)
\* the observation r comes from a guide page
FromGuide(r) == r.source_url \in Elements(result.guide_urls)

\* the name of r matches none of the review links of the guide page it
\* comes from
MatchesNoReview(r) ==
    LET slugs == ReviewLinks(web[r.source_url].anchors, 1, <<>>)
        name_slug == NameSlug(r.name)
    IN  \A k \in 1..Len(slugs) :
            /\ slugs[k] # name_slug
            /\ ~Contains(name_slug, slugs[k])
            /\ ~Contains(slugs[k], name_slug)

GuideOnly(r) == FromGuide(r) /\ MatchesNoReview(r)

\* equal normalized name and address
SameRestaurant(r, q) ==
    /\ NormalizeText(r.name) = NormalizeText(q.name)
    /\ NormalizeText(r.address) = NormalizeText(q.address)

\* two guide-only mentions of one restaurant from two guide pages
TwoGuides(i, k) ==
    /\ GuideOnly(raw_restaurants[i])
    /\ GuideOnly(raw_restaurants[k])
    /\ raw_restaurants[i].source_url # raw_restaurants[k].source_url
    /\ SameRestaurant(raw_restaurants[i], raw_restaurants[k])

\* the returned record j lists the source pages of observations i and k
ListsBoth(j, i, k) ==
    {raw_restaurants[i].source_url, raw_restaurants[k].source_url}
        \subseteq Elements(results[j].source_urls)

\* every guide-only candidate has the guide page as its restaurant_url
PlaceholderUrl ==
    \A i \in 1..Len(all_restaurants) :
        GuideOnly(all_restaurants[i]) =>
            all_restaurants[i].restaurant_url = all_restaurants[i].source_url

C22_CoordinatePairs ==
    pc = "normalized" =>
        \A j \in 1..Len(results) :
            (results[j].lat = <<>>) <=> (results[j].lng = <<>>)

(***************************************************************************)
(* C23.  When the root loads, the guide_urls crawl returns is the sorted   *)
(* set of the guide links of the root page, whatever max_guides is and     *)
(* whatever guide links the guide pages hold; extract_all is handed, and   *)
(* requests, all of them, which can be more than crawl visited.            *)
(***************************************************************************)
C23_GuideUrlsAreRootGuides ==
    /\ (~HubDown /\ pc = "crawl_guides") => all_guides = RootLinks.guides
    /\ (~HubDown /\ pc \notin {"crawl", "crawl_guides"}) =>
           /\ Ascending(result.guide_urls)
           /\ Elements(result.guide_urls) = RootLinks.guides

\* under max_guides = 1 crawl visited guide a alone, which loaded and links
\* a guide the root does not; extract_all then requested guides a and b
C23_Witness ==
    /\ pc = "extracted"
    /\ ~HubDown
    /\ max_guides = <<1>>
    /\ guides_to_crawl = <<GuideUrl(<<97>>)>>
    /\ GuideUrl(<<97>>) \notin down
    /\ ExtractSfLinks(web[GuideUrl(<<97>>)]).guides \ RootLinks.guides # {}
    /\ result.guide_urls = <<GuideUrl(<<97>>), GuideUrl(<<98>>)>>
    /\ GuideUrl(<<98>>) \in Fetched
====
